---- MODULE Spec2Model ----
(***************************************************************************)
(* Model of the conference ticketing programs of this repository:          *)
(*   - the CLI program (src/unnamed/part_000): an AppState ledger with     *)
(*     bookTickets / cancelBooking, persisted to bookings.json through     *)
(*     saveState (temp file, then rename) and restored by loadState;       *)
(*   - the web program (src/main.go): global conf / bookings / nextID      *)
(*     behind one sync.Mutex, served by the index, book and cancel         *)
(*     handlers.                                                           *)
(* A process runs one of the two programs; prog says which.                *)
(*                                                                         *)
(* Strings are sequences of one-character strings.  The token "<FF>"       *)
(* stands for one byte that is not valid UTF-8 and "<FFFD>" for the        *)
(* Unicode replacement rune U+FFFD.                                        *)
(***************************************************************************)
EXTENDS Integers, Sequences, FiniteSets, TLC

(***************************************************************************)
(* Bounds of the model.                                                    *)
(***************************************************************************)
\* Largest total the operator enters at the CLI set-up prompt.
MaxTotal == 3
\* No book is attempted once MaxID identifiers have been handed out.
MaxID == 3
\* The same two bounds, and the number of environment faults (a system call
\* failing, the process being killed), of the behaviours in which the
\* environment may fail.
FaultMaxTotal == 1
FaultMaxID == 1
MaxFaults == 1
\* The same two bounds of the behaviours in which the confirmation goroutines
\* are followed (every goroutine is; elsewhere none is).
TaskMaxTotal == 1
TaskMaxID == 2
\* The identifier bound of the behaviours of the web program under fair
\* scheduling.
FairMaxID == 2

(***************************************************************************)
(* Strings: the library functions the programs call.                       *)
(***************************************************************************)
InvalidByte == "<FF>"
RuneError == "<FFFD>"
\* U+017F, the long s: a lower-case letter whose upper case is "S", while the
\* lower case of "S" is "s".
LongS == "<017F>"

\* unicode.IsSpace on the characters of the model.
IsSpace(c) == c \in {" ", "\t"}

\* strings.TrimSpace
RECURSIVE TrimLeft(_)
TrimLeft(str) ==
  IF str # <<>> /\ IsSpace(Head(str)) THEN TrimLeft(Tail(str)) ELSE str

RECURSIVE TrimRight(_)
TrimRight(str) ==
  IF str # <<>> /\ IsSpace(str[Len(str)])
  THEN TrimRight(SubSeq(str, 1, Len(str) - 1))
  ELSE str

TrimSpace(str) == TrimRight(TrimLeft(str))

\* Upper-case / lower-case pairs of the letters the model's inputs use.
CasePairs == { <<"A", "a">>, <<"B", "b">>, <<"C", "c">>, <<"S", "s">> }

IsUpper(c) == \E p \in CasePairs : p[1] = c
IsLower(c) == c = LongS \/ \E p \in CasePairs : p[2] = c
IsLetter(c) == IsUpper(c) \/ IsLower(c)

\* unicode.ToLower / unicode.ToTitle on one rune.
LowerRune(c) == IF IsUpper(c) THEN (CHOOSE p \in CasePairs : p[1] = c)[2] ELSE c
TitleRune(c) ==
  IF c = LongS THEN "S"
  ELSE IF IsLower(c) THEN (CHOOSE p \in CasePairs : p[2] = c)[1] ELSE c

\* strings.ToLower: a string that is not pure ASCII goes through strings.Map,
\* which writes U+FFFD for every byte that is not valid UTF-8.
ToLower(str) ==
  [i \in 1..Len(str) |->
     IF str[i] = InvalidByte THEN RuneError ELSE LowerRune(str[i])]

\* strings.Title's isSeparator: ASCII letters, digits and '_' are not
\* separators, any other ASCII character is; beyond ASCII only spaces are.
IsSeparator(c) == ~IsLetter(c) /\ c # RuneError /\ c # InvalidByte

\* strings.Title: the first letter of every word is mapped to title case.
Title(str) ==
  [i \in 1..Len(str) |->
     LET prev == IF i = 1 THEN " " ELSE str[i - 1]
         r == IF str[i] = InvalidByte THEN RuneError ELSE str[i]
     IN IF IsSeparator(prev) THEN TitleRune(r) ELSE r]

\* len([]rune(str)): every token of the model is one rune.
RuneCount(str) == Len(str)

\* emailRegex: ^[^@\s]+@[^@\s]+\.[^@\s]+$
emailRegex(str) ==
  /\ \A i \in 1..Len(str) : ~IsSpace(str[i])
  /\ Cardinality({i \in 1..Len(str) : str[i] = "@"}) = 1
  /\ LET at == CHOOSE i \in 1..Len(str) : str[i] = "@"
     IN /\ at > 1
        /\ \E dot \in (at + 2)..(Len(str) - 1) : str[dot] = "."

\* prompt: the line read from standard input, trimmed.
prompt(line) == TrimSpace(line)

validateName_oneRune(name) == RuneCount(TrimSpace(name)) >= 1
validateName(name) == RuneCount(TrimSpace(name)) >= 2

validateEmail(email) == emailRegex(TrimSpace(email))

(***************************************************************************)
(* Data model.                                                             *)
(***************************************************************************)
\* "Go Conference", the default name of both programs.
DefaultConfName == <<"G", "o", " ", "C", "o", "n", "f", "e", "r", "e", "n", "c", "e">>

Conference(name, total, remaining) ==
  [Name |-> name, TotalTickets |-> total, RemainingTickets |-> remaining]

Booking(id, first, last, email, tickets, at) ==
  [ID |-> id, FirstName |-> first, LastName |-> last, Email |-> email,
   Tickets |-> tickets, BookedAt |-> at]

AppState(conference, list, next) ==
  [Conference |-> conference, Bookings |-> list, NextID |-> next]

\* Booking{}, the zero value returned beside an error.
ZeroBooking == Booking(0, <<>>, <<>>, <<>>, 0, 0)

\* The value of s while no ledger has been loaded or initialised.
NilState == AppState(Conference(<<>>, 0, 0), <<>>, 0)

RECURSIVE SumTickets(_)
SumTickets(list) ==
  IF list = <<>> THEN 0 ELSE Head(list).Tickets + SumTickets(Tail(list))

(***************************************************************************)
(* Core operations of the CLI ledger.                                      *)
(***************************************************************************)
\* The capacity test of bookTickets.
OverCapacity_off(tickets, remaining) == FALSE
OverCapacity(tickets, remaining) == tickets > remaining

\* atomic.AddUint64(&s.NextID, 1): the counter after the increment, which is
\* the identifier of the new booking.
AddUint64_stuck(next) == next
AddUint64(next) == next + 1

\* append(list[:i], list[i+1:]...) with i counted from 1.
RemoveAt_neighbour(list, i) ==
  IF i < Len(list)
  THEN SubSeq(list, 1, i) \o SubSeq(list, i + 2, Len(list))
  ELSE SubSeq(list, 1, i - 1)
RemoveAt(list, i) == SubSeq(list, 1, i - 1) \o SubSeq(list, i + 1, Len(list))

\* findBookingByID: the index of the first booking with this identifier,
\* 0 when there is none (the code's nil, -1).
findBookingByID(st, id) ==
  IF \E i \in 1..Len(st.Bookings) : st.Bookings[i].ID = id
  THEN CHOOSE i \in 1..Len(st.Bookings) :
         /\ st.Bookings[i].ID = id
         /\ \A j \in 1..(i - 1) : st.Bookings[j].ID # id
  ELSE 0

\* findBookingByEmail: the bookings whose stored email is the query, trimmed
\* and lower-cased, in the order of the list.
findBookingByEmail_noLower(st, email) ==
  LET key == TrimSpace(email)
  IN SelectSeq(st.Bookings, LAMBDA b : b.Email = key)
findBookingByEmail(st, email) ==
  LET key == ToLower(TrimSpace(email))
  IN SelectSeq(st.Bookings, LAMBDA b : b.Email = key)

\* bookTickets: the ledger after the call, the booking returned and the error.
bookTickets_consumesID(st, first, last, email, tickets, now) ==
  IF ~validateName(first) \/ ~validateName(last)
  THEN [s |-> st, b |-> ZeroBooking, err |-> "name"]
  ELSE IF ~validateEmail(email)
  THEN [s |-> st, b |-> ZeroBooking, err |-> "email"]
  ELSE IF tickets <= 0
  THEN [s |-> st, b |-> ZeroBooking, err |-> "tickets"]
  ELSE LET id == AddUint64(st.NextID)
           b == Booking(id, Title(ToLower(first)), Title(ToLower(last)),
                        ToLower(email), tickets, now)
       IN IF OverCapacity(tickets, st.Conference.RemainingTickets)
          THEN [s |-> [st EXCEPT !.NextID = id], b |-> ZeroBooking,
                err |-> "capacity"]
          ELSE [s |-> [st EXCEPT !.NextID = id,
                                 !.Bookings = Append(@, b),
                                 !.Conference.RemainingTickets = @ - tickets],
                b |-> b, err |-> "nil"]
bookTickets(st, first, last, email, tickets, now) ==
  IF ~validateName(first) \/ ~validateName(last)
  THEN [s |-> st, b |-> ZeroBooking, err |-> "name"]
  ELSE IF ~validateEmail(email)
  THEN [s |-> st, b |-> ZeroBooking, err |-> "email"]
  ELSE IF tickets <= 0
  THEN [s |-> st, b |-> ZeroBooking, err |-> "tickets"]
  ELSE IF OverCapacity(tickets, st.Conference.RemainingTickets)
  THEN [s |-> st, b |-> ZeroBooking, err |-> "capacity"]
  ELSE LET id == AddUint64(st.NextID)
           b == Booking(id, Title(ToLower(first)), Title(ToLower(last)),
                        ToLower(email), tickets, now)
       IN [s |-> [st EXCEPT !.NextID = id,
                            !.Bookings = Append(@, b),
                            !.Conference.RemainingTickets = @ - tickets],
           b |-> b, err |-> "nil"]

\* cancelBooking: the ledger after the call and the error.
cancelBooking_norestore(st, id) ==
  LET idx == findBookingByID(st, id)
  IN IF idx = 0
     THEN [s |-> st, err |-> "notfound"]
     ELSE [s |-> [st EXCEPT !.Bookings = RemoveAt(@, idx)], err |-> "nil"]
cancelBooking_lenient(st, id) ==
  LET idx == findBookingByID(st, id)
  IN IF idx = 0
     THEN [s |-> [st EXCEPT !.Conference.RemainingTickets = @ + 1],
           err |-> "notfound"]
     ELSE [s |-> [st EXCEPT
                    !.Conference.RemainingTickets = @ + st.Bookings[idx].Tickets,
                    !.Bookings = RemoveAt(@, idx)],
           err |-> "nil"]
cancelBooking(st, id) ==
  LET idx == findBookingByID(st, id)
  IN IF idx = 0
     THEN [s |-> st, err |-> "notfound"]
     ELSE [s |-> [st EXCEPT
                    !.Conference.RemainingTickets = @ + st.Bookings[idx].Tickets,
                    !.Bookings = RemoveAt(@, idx)],
           err |-> "nil"]

(***************************************************************************)
(* Persistence: the JSON document of an AppState and the files.            *)
(***************************************************************************)
\* encoding/json writes a string coerced to valid UTF-8: every byte that is
\* not valid UTF-8 becomes U+FFFD.
JSONString(str) ==
  [i \in 1..Len(str) |-> IF str[i] = InvalidByte THEN RuneError ELSE str[i]]

EncodeBooking(b) ==
  [id |-> b.ID, first_name |-> JSONString(b.FirstName),
   last_name |-> JSONString(b.LastName), email |-> JSONString(b.Email),
   tickets |-> b.Tickets, booked_at_unix |-> b.BookedAt]

\* enc.Encode(s): the document, keyed by the json tags of the structs.
Encode(st) ==
  [conference |-> [name |-> JSONString(st.Conference.Name),
                   total_tickets |-> st.Conference.TotalTickets,
                   remaining_tickets |-> st.Conference.RemainingTickets],
   bookings |-> [i \in 1..Len(st.Bookings) |-> EncodeBooking(st.Bookings[i])],
   next_id |-> st.NextID]

DecodeBooking(j) ==
  Booking(j.id, j.first_name, j.last_name, j.email, j.tickets, j.booked_at_unix)

\* dec.Decode(&s)
Decode(doc) ==
  AppState(Conference(doc.conference.name, doc.conference.total_tickets,
                      doc.conference.remaining_tickets),
           [i \in 1..Len(doc.bookings) |-> DecodeBooking(doc.bookings[i])],
           doc.next_id)

\* The content of a file: absent, created and still empty, a strict prefix of
\* a document, a whole document, or bytes that are no JSON document.
NullDoc == Encode(NilState)
Absent == [kind |-> "absent", doc |-> NullDoc]
Empty == [kind |-> "empty", doc |-> NullDoc]
Partial == [kind |-> "partial", doc |-> NullDoc]
Garbage == [kind |-> "garbage", doc |-> NullDoc]
Whole(doc) == [kind |-> "json", doc |-> doc]

(***************************************************************************)
(* The confirmation goroutine of bookTickets.                              *)
(***************************************************************************)
\* go func(b Booking, confName string){...}(b, s.Conference.Name): the two
\* arguments are copied when the goroutine is started.
Task(b, confName) == [b |-> b, confName |-> confName]

spawn(b, st) == Task(b, st.Conference.Name)

\* The line the goroutine prints after its sleep: email, tickets, conference
\* name and identifier.  The ledger st is in the closure's scope; the body
\* reads its two arguments only.
Line(email, tickets, conference, id) ==
  [email |-> email, tickets |-> tickets, conference |-> conference, id |-> id]
NoLine == Line(<<>>, 0, <<>>, 0)

confirmation_live(t, st) ==
  LET idx == findBookingByID(st, t.b.ID)
      b == IF idx = 0 THEN ZeroBooking ELSE st.Bookings[idx]
  IN Line(b.Email, b.Tickets, st.Conference.Name, b.ID)
confirmation(t, st) == Line(t.b.Email, t.b.Tickets, t.confName, t.b.ID)

(***************************************************************************)
(* State.                                                                  *)
(***************************************************************************)
VARIABLES
  prog,      \* the program this process runs: "cli" or "web"
  pc,        \* CLI: where main is
  site,      \* CLI: the call site of the saveState in progress
  s,         \* CLI: the AppState main holds
  file,      \* CLI: the content of bookings.json
  tmp,       \* CLI: the content of bookings.json.tmp
  ret,       \* what the last book or cancel call returned
  issued,    \* the largest identifier a successful book of this run returned
  faults,    \* the environment faults that may still happen
  limits,    \* the bounds of this behaviour: [total, id, tasks]
  tasks,     \* CLI: the confirmation goroutines that have not printed yet
  printed,   \* CLI: the last confirmation line a goroutine printed
  saved,     \* CLI: what the saveState that just returned gave its call site
  runs,      \* CLI: the runs of the process so far
  conf,      \* web: the global conf
  bookings,  \* web: the global bookings
  nextID,    \* web: the global nextID
  mu,        \* web: the handler holding the mutex, 0 when it is free
  hpc,       \* web: where each handler is
  hkind      \* web: the route each handler serves, "none" between requests

vars == <<prog, pc, site, s, file, tmp, ret, issued, faults, limits,
          tasks, printed, saved, runs,
          conf, bookings, nextID, mu, hpc, hkind>>

cliVars == <<pc, site, s, file, tmp>>
webVars == <<conf, bookings, nextID, mu, hpc, hkind>>
auxVars == <<tasks, printed, saved, runs>>

(***************************************************************************)
(* Inputs.                                                                 *)
(***************************************************************************)
\* Lines typed for a first or last name: "aB" with blanks around it (valid),
\* "a" (too short).
NameLines == { <<" ", "a", "B", " ">>, <<"a", " ">> }

\* Lines typed for an email: two addresses of the right shape (one in upper
\* case, one with the long s), one without a top-level domain.
EmailLines == { <<"A", "@", "b", ".", "c">>, <<LongS, "@", "b", ".", "c">>,
                <<"a", "@", "b">> }

\* Lines typed at the email prompt of the search: the addresses of EmailLines
\* as typed, in the other case and between blanks, their lower-case
\* spellings with "s", and an address nobody books with.
FindLines ==
  { <<"A", "@", "b", ".", "c">>, <<" ", "a", "@", "B", ".", "C", " ">>,
    <<LongS, "@", "b", ".", "c">>, <<"S", "@", "B", ".", "C">>,
    <<"s", "@", "b", ".", "c">>, <<"c", "@", "b", ".", "c">> }

\* Lines typed for the conference name: empty (the default is taken), and a
\* name holding a byte that is not valid UTF-8.
ConfNameLines == { <<>>, <<"C", InvalidByte>> }

\* A line typed where a number is expected: what strconv.Atoi makes of it.
Number(n) == [isNumber |-> TRUE, n |-> n]
NotANumber == [isNumber |-> FALSE, n |-> 0]

\* time.Now().Unix(): the programs store the reading and print it; no code
\* path compares it, so one reading stands for all.
Times == {1}

\* The web program's capacity: conf.TotalTickets of src/main.go.
WebTotalTickets == 100

\* The goroutines net/http runs handlers on.
Handlers == {1, 2}

Result(op, err, id) == [op |-> op, err |-> err, id |-> id]
NoResult == Result("none", "nil", 0)

\* What saveState returned to its call site, and whether the call site printed
\* its warning.
SaveResult(err, warned) == [err |-> err, warned |-> warned]
NoSave == SaveResult("none", FALSE)

\* atoiSafe: 0 and an error when the line is no number.
atoiSafe(line) == [n |-> IF line.isNumber THEN line.n ELSE 0, err |-> ~line.isNumber]

\* Lines typed where the CLI asks for a total or a ticket count.
NumberLines(max) == {NotANumber} \cup {Number(n) : n \in (-1)..max}

(***************************************************************************)
(* Initial state: a process of either program starts; bookings.json is     *)
(* absent or holds bytes that are no snapshot.                             *)
(***************************************************************************)
Start ==
  /\ pc = "start"
  /\ site = "none"
  /\ s = NilState
  /\ file \in {Absent, Garbage}
  /\ tmp = Absent
  /\ ret = NoResult
  /\ issued = 0
  /\ tasks = {}
  /\ printed = NoLine
  /\ saved = NoSave
  /\ runs = [earlier |-> 0, restored |-> FALSE]
  /\ conf = Conference(DefaultConfName, WebTotalTickets, WebTotalTickets)
  /\ bookings = <<>>
  /\ nextID = 1
  /\ mu = 0
  /\ hpc = [g \in Handlers |-> "idle"]
  /\ hkind = [g \in Handlers |-> "none"]

\* Either program, in an environment without faults.
Init ==
  /\ prog \in {"cli", "web"}
  /\ faults = 0
  /\ limits = [total |-> MaxTotal, id |-> MaxID, tasks |-> 0]
  /\ Start

\* The CLI program, in an environment that may fail MaxFaults times.
FaultInit ==
  /\ prog = "cli"
  /\ faults = MaxFaults
  /\ limits = [total |-> FaultMaxTotal, id |-> FaultMaxID, tasks |-> 0]
  /\ Start

\* The CLI program with its confirmation goroutines followed.
TaskInit ==
  /\ prog = "cli"
  /\ faults = 0
  /\ limits = [total |-> TaskMaxTotal, id |-> TaskMaxID, tasks |-> TaskMaxID]
  /\ Start

\* The web program alone.
FairInit ==
  /\ prog = "web"
  /\ faults = 0
  /\ limits = [total |-> 0, id |-> FairMaxID, tasks |-> 0]
  /\ Start

(***************************************************************************)
(* The CLI program: start-up.                                              *)
(***************************************************************************)
\* loadState: "notexist" when the file is absent, "error" when it cannot be
\* opened or does not decode, the decoded state otherwise.  openFails is the
\* file system refusing to open a file that is there.
loadState(content, openFails) ==
  IF content.kind = "absent" THEN [s |-> NilState, err |-> "notexist"]
  ELSE IF openFails THEN [s |-> NilState, err |-> "error"]
  ELSE IF content.kind # "json" THEN [s |-> NilState, err |-> "error"]
  ELSE [s |-> Decode(content.doc), err |-> "nil"]

\* main, lines 275-306: any error of loadState leads to initialisation.
AfterLoad(err) == IF err # "nil" THEN "init" ELSE "menu"

\* A system call succeeds, or fails while the fault budget lasts.
Outcome(ok) ==
  /\ ~ok => faults > 0
  /\ faults' = IF ok THEN faults ELSE faults - 1

Load ==
  /\ prog = "cli" /\ pc = "start"
  /\ \E openFails \in BOOLEAN :
       /\ openFails => file.kind # "absent"
       /\ Outcome(~openFails)
       /\ LET r == loadState(file, openFails)
          IN /\ pc' = AfterLoad(r.err)
             /\ s' = r.s
             /\ runs' = [runs EXCEPT !.restored = (r.err = "nil")]
  /\ UNCHANGED <<prog, site, file, tmp, ret, issued, limits,
                 tasks, printed, saved, webVars>>

\* The total prompt answered with something that is no positive number.
InitBadTotal ==
  /\ prog = "cli" /\ pc = "init"
  /\ \E line \in NumberLines(limits.total) :
       atoiSafe(line).err \/ atoiSafe(line).n <= 0
  /\ UNCHANGED vars

\* The fresh ledger of main, followed by its saveState.
InitState ==
  /\ prog = "cli" /\ pc = "init"
  /\ \E nameLine \in ConfNameLines, line \in NumberLines(limits.total) :
       LET confName == IF prompt(nameLine) = <<>> THEN DefaultConfName
                       ELSE prompt(nameLine)
           total == atoiSafe(line).n
       IN /\ ~atoiSafe(line).err /\ total > 0
          /\ s' = AppState(Conference(confName, total, total), <<>>, 0)
  /\ pc' = "save_create"
  /\ site' = "init"
  /\ UNCHANGED <<prog, file, tmp, ret, issued, faults, limits, auxVars, webVars>>

(***************************************************************************)
(* The CLI program: saveState, one action per system call.                 *)
(***************************************************************************)
Disk(f, t) == [file |-> f, tmp |-> t]

\* os.Create(tmp): the temp file exists and is empty.
Create_inPlace(disk) == Disk(Empty, disk.tmp)
Create(disk) == Disk(disk.file, Empty)

\* enc.Encode(s): the whole document is written to the temp file.
Write(disk, st) == Disk(disk.file, Whole(Encode(st)))

\* os.Rename(tmp, stateFile): the temp file takes the place of the state file.
Rename(disk) == Disk(disk.tmp, Absent)

\* What a call site of saveState does with the error: the ones after book and
\* after cancel print a warning, the one of the set-up assigns it to _.
Warns(where, err) == where \in {"book", "cancel"} /\ err # "nil"

\* saveState returns err to its call site.
SaveReturn(err) ==
  /\ pc' = "saved"
  /\ site' = site
  /\ saved' = SaveResult(err, Warns(site, err))

SaveCreate ==
  /\ prog = "cli" /\ pc = "save_create"
  /\ \E ok \in BOOLEAN :
       /\ Outcome(ok)
       /\ IF ok
          THEN /\ file' = Create(Disk(file, tmp)).file
               /\ tmp' = Create(Disk(file, tmp)).tmp
               /\ pc' = "save_encode"
               /\ site' = site
               /\ saved' = saved
          ELSE /\ SaveReturn("create")
               /\ UNCHANGED <<file, tmp>>
  /\ UNCHANGED <<prog, s, ret, issued, limits, tasks, printed, runs, webVars>>

\* A failed write leaves the temp file empty or with a prefix of the document.
SaveEncode ==
  /\ prog = "cli" /\ pc = "save_encode"
  /\ \E ok \in BOOLEAN :
       /\ Outcome(ok)
       /\ IF ok
          THEN /\ file' = Write(Disk(file, tmp), s).file
               /\ tmp' = Write(Disk(file, tmp), s).tmp
               /\ pc' = "save_close"
               /\ site' = site
               /\ saved' = saved
          ELSE /\ SaveReturn("encode")
               /\ tmp' \in {Empty, Partial}
               /\ file' = file
  /\ UNCHANGED <<prog, s, ret, issued, limits, tasks, printed, runs, webVars>>

SaveClose ==
  /\ prog = "cli" /\ pc = "save_close"
  /\ \E ok \in BOOLEAN :
       /\ Outcome(ok)
       /\ IF ok
          THEN /\ pc' = "save_rename"
               /\ site' = site
               /\ saved' = saved
          ELSE SaveReturn("close")
  /\ UNCHANGED <<prog, s, file, tmp, ret, issued, limits,
                 tasks, printed, runs, webVars>>

SaveRename ==
  /\ prog = "cli" /\ pc = "save_rename"
  /\ \E ok \in BOOLEAN :
       /\ Outcome(ok)
       /\ IF ok
          THEN /\ file' = Rename(Disk(file, tmp)).file
               /\ tmp' = Rename(Disk(file, tmp)).tmp
               /\ SaveReturn("nil")
          ELSE /\ UNCHANGED <<file, tmp>>
               /\ SaveReturn("rename")
  /\ UNCHANGED <<prog, s, ret, issued, limits, tasks, printed, runs, webVars>>

\* The call site has dealt with what saveState returned (the set-up breaks out
\* of its loop, book and cancel print their message); main reads the next
\* menu choice.
Resume ==
  /\ prog = "cli" /\ pc = "saved"
  /\ pc' = "menu"
  /\ site' = "none"
  /\ saved' = NoSave
  /\ UNCHANGED <<prog, s, file, tmp, ret, issued, faults, limits,
                 tasks, printed, runs, webVars>>

(***************************************************************************)
(* The CLI program: the process ends and is started again.                 *)
(***************************************************************************)
Max(a, b) == IF a >= b THEN a ELSE b

\* The goroutines end with the process; what the earlier runs handed out is
\* kept as history.
Restart ==
  /\ pc' = "start"
  /\ site' = "none"
  /\ s' = NilState
  /\ ret' = NoResult
  /\ issued' = 0
  /\ tasks' = {}
  /\ printed' = NoLine
  /\ saved' = NoSave
  /\ runs' = [earlier |-> Max(runs.earlier, issued), restored |-> FALSE]

InSave == pc \in {"save_create", "save_encode", "save_close", "save_rename"}

\* The process is killed between two system calls of saveState.
Crash ==
  /\ prog = "cli" /\ InSave
  /\ Outcome(FALSE)
  /\ Restart
  /\ UNCHANGED <<prog, file, tmp, limits, webVars>>

\* The process is killed while enc.Encode is writing the temp file.
CrashInWrite ==
  /\ prog = "cli" /\ pc = "save_encode"
  /\ Outcome(FALSE)
  /\ Restart
  /\ tmp' = Partial
  /\ UNCHANGED <<prog, file, limits, webVars>>

\* Menu choice 0.
Exit ==
  /\ prog = "cli" /\ pc = "menu"
  /\ Restart
  /\ UNCHANGED <<prog, file, tmp, faults, limits, webVars>>

(***************************************************************************)
(* The CLI program: the menu.                                              *)
(***************************************************************************)
\* Choice 1 on a sold-out conference: bookTickets is not called.
SoldOut ==
  /\ prog = "cli" /\ pc = "menu"
  /\ s.Conference.RemainingTickets = 0
  /\ UNCHANGED vars

\* Choice 1, the ticket prompt answered with something that is no number.
BookInvalidNumber ==
  /\ prog = "cli" /\ pc = "menu"
  /\ s.Conference.RemainingTickets # 0
  /\ \E line \in NumberLines(limits.total + 1) : atoiSafe(line).err
  /\ UNCHANGED vars

\* Choice 1 with the answers to the four prompts, and the clock.
Book(firstLine, lastLine, emailLine, tk, now) ==
  /\ prog = "cli" /\ pc = "menu"
  /\ s.Conference.RemainingTickets # 0
  /\ s.NextID < limits.id
  /\ LET r == bookTickets(s, prompt(firstLine), prompt(lastLine),
                          prompt(emailLine), tk, now)
     IN /\ s' = r.s
        /\ ret' = Result("book", r.err, r.b.ID)
        /\ issued' = IF r.err = "nil" THEN Max(issued, r.b.ID) ELSE issued
        /\ tasks' = IF r.err = "nil" /\ Cardinality(tasks) < limits.tasks
                    THEN tasks \cup {spawn(r.b, r.s)}
                    ELSE tasks
        /\ IF r.err = "nil"
           THEN pc' = "save_create" /\ site' = "book"
           ELSE UNCHANGED <<pc, site>>
  /\ UNCHANGED <<prog, file, tmp, faults, limits, printed, saved, runs, webVars>>

\* Choice 4, the identifier prompt answered with something ParseUint rejects.
CancelInvalidID ==
  /\ prog = "cli" /\ pc = "menu"
  /\ UNCHANGED vars

\* Choice 4 with an identifier.
Cancel(id) ==
  /\ prog = "cli" /\ pc = "menu"
  /\ LET r == cancelBooking(s, id)
     IN /\ s' = r.s
        /\ ret' = Result("cancel", r.err, id)
        /\ IF r.err = "nil"
           THEN pc' = "save_create" /\ site' = "cancel"
           ELSE UNCHANGED <<pc, site>>
  /\ UNCHANGED <<prog, file, tmp, issued, faults, limits, auxVars, webVars>>

\* Choices 2, 3, 5 and 6 and an unknown choice: listBookings, the find by
\* identifier, showStats and exportCSV read the ledger and leave it as it is.
ReadOnly ==
  /\ prog = "cli" /\ pc = "menu"
  /\ UNCHANGED vars

\* Choice 3, search by email: the bookings found are printed.
FindByEmail ==
  /\ prog = "cli" /\ pc = "menu"
  /\ \E line \in FindLines :
       Len(findBookingByEmail(s, prompt(line))) <= Len(s.Bookings)
  /\ UNCHANGED vars

\* A confirmation goroutine wakes from its sleep and prints its line, wherever
\* main is.
Confirm ==
  /\ prog = "cli"
  /\ \E t \in tasks :
       /\ printed' = confirmation(t, s)
       /\ tasks' = tasks \ {t}
  /\ UNCHANGED <<prog, cliVars, ret, issued, faults, limits, saved, runs, webVars>>

BookInputs ==
  \E firstLine \in NameLines, lastLine \in NameLines, emailLine \in EmailLines,
     line \in NumberLines(limits.total + 1), now \in Times :
    /\ ~atoiSafe(line).err
    /\ Book(firstLine, lastLine, emailLine, atoiSafe(line).n, now)

CancelInputs == \E id \in 0..(limits.id + 1) : Cancel(id)

CLINext ==
  \/ Load \/ InitBadTotal \/ InitState
  \/ SaveCreate \/ SaveEncode \/ SaveClose \/ SaveRename \/ Resume
  \/ Exit
  \/ SoldOut \/ BookInvalidNumber \/ BookInputs
  \/ CancelInvalidID \/ CancelInputs \/ ReadOnly \/ FindByEmail

(***************************************************************************)
(* The web program.                                                        *)
(***************************************************************************)
\* What the forms of a POST /book carry in first, last and email; the
\* handler stores them as they come.
WebForms ==
  { [first |-> <<"a", "B">>, last |-> <<"B", "a">>,
     email |-> <<"A", "@", "b", ".", "c">>],
    [first |-> <<>>, last |-> <<"a">>, email |-> <<"a", "@", "b">>] }

\* What the form field tickets carries.
WebTicketLines ==
  { NotANumber, Number(-1), Number(0), Number(1), Number(WebTotalTickets - 1),
    Number(WebTotalTickets), Number(WebTotalTickets + 1) }

\* strconv.Atoi with its error dropped: 0 when the text is no number.
Atoi(line) == IF line.isNumber THEN line.n ELSE 0

\* The three globals the handlers share.
WebState(c, list, next) == [conf |-> c, bookings |-> list, nextID |-> next]

\* The body of book: the globals after it, the booking and the response.
webBook_reuseID(st, form, tk, now) ==
  IF tk <= 0 \/ tk > st.conf.RemainingTickets
  THEN [s |-> st, b |-> ZeroBooking, err |-> "badrequest"]
  ELSE LET b == Booking(st.nextID, form.first, form.last, form.email, tk, now)
       IN [s |-> WebState([st.conf EXCEPT !.RemainingTickets = @ - tk],
                          Append(st.bookings, b), st.nextID),
           b |-> b, err |-> "nil"]
webBook(st, form, tk, now) ==
  IF tk <= 0 \/ tk > st.conf.RemainingTickets
  THEN [s |-> st, b |-> ZeroBooking, err |-> "badrequest"]
  ELSE LET b == Booking(st.nextID, form.first, form.last, form.email, tk, now)
       IN [s |-> WebState([st.conf EXCEPT !.RemainingTickets = @ - tk],
                          Append(st.bookings, b), st.nextID + 1),
           b |-> b, err |-> "nil"]

\* The body of cancel: the first booking with the identifier is removed and
\* its tickets restored; nothing happens when there is none.
webCancel(st, id) ==
  IF \E i \in 1..Len(st.bookings) : st.bookings[i].ID = id
  THEN LET i == CHOOSE k \in 1..Len(st.bookings) :
                  /\ st.bookings[k].ID = id
                  /\ \A j \in 1..(k - 1) : st.bookings[j].ID # id
       IN WebState([st.conf EXCEPT !.RemainingTickets = @ + st.bookings[i].Tickets],
                   SubSeq(st.bookings, 1, i - 1)
                     \o SubSeq(st.bookings, i + 1, Len(st.bookings)),
                   st.nextID)
  ELSE st

\* A request is routed to a handler, which runs on a goroutine of its own.
Request(g) ==
  /\ prog = "web" /\ hpc[g] = "idle"
  /\ \E kind \in {"index", "book", "cancel"} : hkind' = [hkind EXCEPT ![g] = kind]
  /\ hpc' = [hpc EXCEPT ![g] = "lock"]
  /\ UNCHANGED <<prog, cliVars, ret, issued, faults, limits, auxVars,
                 conf, bookings, nextID, mu>>

\* book and cancel answer a request that is no POST with a redirect, before
\* they touch the mutex.
NotPost(g) ==
  /\ prog = "web" /\ hpc[g] = "idle"
  /\ UNCHANGED vars

\* mu.Lock()
Lock_noWait(g) ==
  /\ prog = "web" /\ hpc[g] = "lock"
  /\ mu' = g
  /\ hpc' = [hpc EXCEPT ![g] = "body"]
  /\ UNCHANGED <<prog, cliVars, ret, issued, faults, limits, auxVars,
                 conf, bookings, nextID, hkind>>
Lock(g) ==
  /\ prog = "web" /\ hpc[g] = "lock"
  /\ mu = 0
  /\ mu' = g
  /\ hpc' = [hpc EXCEPT ![g] = "body"]
  /\ UNCHANGED <<prog, cliVars, ret, issued, faults, limits, auxVars,
                 conf, bookings, nextID, hkind>>

\* index renders conf and bookings.
IndexBody(g) ==
  /\ prog = "web" /\ hpc[g] = "body" /\ hkind[g] = "index"
  /\ hpc' = [hpc EXCEPT ![g] = "unlock"]
  /\ UNCHANGED <<prog, cliVars, ret, issued, faults, limits, auxVars,
                 conf, bookings, nextID, mu, hkind>>

\* The body of book, lines 103-119; the deferred Unlock follows on both
\* returns.
BookBody_keepsLock(g, form, line, now) ==
  /\ prog = "web" /\ hpc[g] = "body" /\ hkind[g] = "book"
  /\ LET r == webBook(WebState(conf, bookings, nextID), form, Atoi(line), now)
     IN /\ r.err = "nil" => nextID <= limits.id
        /\ conf' = r.s.conf
        /\ bookings' = r.s.bookings
        /\ nextID' = r.s.nextID
        /\ ret' = Result("book", r.err, r.b.ID)
        /\ issued' = IF r.err = "nil" THEN Max(issued, r.b.ID) ELSE issued
        /\ hpc' = [hpc EXCEPT ![g] = IF r.err = "nil" THEN "unlock" ELSE "idle"]
        /\ hkind' = [hkind EXCEPT ![g] = IF r.err = "nil" THEN @ ELSE "none"]
  /\ UNCHANGED <<prog, cliVars, faults, limits, auxVars, mu>>
BookBody(g, form, line, now) ==
  /\ prog = "web" /\ hpc[g] = "body" /\ hkind[g] = "book"
  /\ LET r == webBook(WebState(conf, bookings, nextID), form, Atoi(line), now)
     IN /\ r.err = "nil" => nextID <= limits.id
        /\ conf' = r.s.conf
        /\ bookings' = r.s.bookings
        /\ nextID' = r.s.nextID
        /\ ret' = Result("book", r.err, r.b.ID)
        /\ issued' = IF r.err = "nil" THEN Max(issued, r.b.ID) ELSE issued
  /\ hpc' = [hpc EXCEPT ![g] = "unlock"]
  /\ UNCHANGED <<prog, cliVars, faults, limits, auxVars, mu, hkind>>

CancelBody(g, id) ==
  /\ prog = "web" /\ hpc[g] = "body" /\ hkind[g] = "cancel"
  /\ LET r == webCancel(WebState(conf, bookings, nextID), id)
     IN /\ conf' = r.conf
        /\ bookings' = r.bookings
        /\ nextID' = r.nextID
  /\ ret' = Result("cancel", "nil", id)
  /\ hpc' = [hpc EXCEPT ![g] = "unlock"]
  /\ UNCHANGED <<prog, cliVars, issued, faults, limits, auxVars, mu, hkind>>

\* The deferred mu.Unlock()
Unlock(g) ==
  /\ prog = "web" /\ hpc[g] = "unlock"
  /\ mu' = 0
  /\ hpc' = [hpc EXCEPT ![g] = "idle"]
  /\ hkind' = [hkind EXCEPT ![g] = "none"]
  /\ UNCHANGED <<prog, cliVars, ret, issued, faults, limits, auxVars,
                 conf, bookings, nextID>>

WebBookInputs ==
  \E g \in Handlers, form \in WebForms, line \in WebTicketLines, now \in Times :
    BookBody(g, form, line, now)

WebCancelInputs ==
  \E g \in Handlers, id \in 0..(limits.id + 1) : CancelBody(g, id)

WebNext ==
  \/ \E g \in Handlers : Request(g)
  \/ \E g \in Handlers : NotPost(g)
  \/ \E g \in Handlers : Lock(g)
  \/ \E g \in Handlers : IndexBody(g)
  \/ WebBookInputs
  \/ WebCancelInputs
  \/ \E g \in Handlers : Unlock(g)

(***************************************************************************)
(* Specifications.                                                         *)
(***************************************************************************)
Next == CLINext \/ WebNext

Spec == Init /\ [][Next]_vars

FaultNext == CLINext \/ Crash \/ CrashInWrite

FaultSpec == FaultInit /\ [][FaultNext]_vars

\* The CLI program with its confirmation goroutines followed.
TaskNext == CLINext \/ Confirm

TaskSpec == TaskInit /\ [][TaskNext]_vars

\* The web program under the scheduling Go gives: a goroutine that can run
\* does run, and sync.Mutex hands the lock to a goroutine that keeps waiting
\* for it (starvation mode), so no waiter is passed over for ever.
Fairness ==
  \A g \in Handlers :
    /\ SF_vars(Lock(g))
    /\ WF_vars(IndexBody(g))
    /\ WF_vars(\E form \in WebForms, line \in WebTicketLines, now \in Times :
                 BookBody(g, form, line, now))
    /\ WF_vars(\E id \in 0..(limits.id + 1) : CancelBody(g, id))
    /\ WF_vars(Unlock(g))

FairSpec == FairInit /\ [][WebNext]_vars /\ Fairness

(***************************************************************************)
(* Properties.                                                             *)
(***************************************************************************)
\* The inputs of one book call of the CLI.
BookArgs ==
  { [first |-> f, last |-> l, email |-> e, tk |-> k, now |-> n] :
      f \in NameLines, l \in NameLines, e \in EmailLines,
      k \in (-1)..(limits.total + 1), n \in Times }

BookWith(a) == Book(a.first, a.last, a.email, a.tk, a.now)

\* What the book call of menu choice 1 returns on the ledger as it is.
BookResult(a) ==
  bookTickets(s, prompt(a.first), prompt(a.last), prompt(a.email), a.tk, a.now)

\* The inputs of one POST /book.
WebBookArgs ==
  { [g |-> g, form |-> f, line |-> l, now |-> n] :
      g \in Handlers, f \in WebForms, l \in WebTicketLines, n \in Times }

WebBookWith(a) == BookBody(a.g, a.form, a.line, a.now)

\* What the body of the book handler does on the globals as they are.
WebBookResult(a) ==
  webBook(WebState(conf, bookings, nextID), a.form, Atoi(a.line), a.now)

\* The words of the specification on a name and on an email.
NameTooShort(name) == Len(TrimSpace(name)) < 2
NamesAndEmailValid(a) ==
  /\ ~NameTooShort(prompt(a.first))
  /\ ~NameTooShort(prompt(a.last))
  /\ emailRegex(TrimSpace(prompt(a.email)))

\* Where a book or cancel call is about to be made.
AtMenu == prog = "cli" /\ pc = "menu"
AtBookBody == prog = "web" /\ \E g \in Handlers : hpc[g] = "body" /\ hkind[g] = "book"
AtCancelBody == prog = "web" /\ \E g \in Handlers : hpc[g] = "body" /\ hkind[g] = "cancel"

\* list without its i-th element, the others in their order.
Without(list, i) ==
  [j \in 1..(Len(list) - 1) |-> IF j < i THEN list[j] ELSE list[j + 1]]

\* C1: after every operation, remaining tickets plus the tickets of the
\* bookings in the list equal the total, in the CLI ledger and in the web
\* program's globals.
C1_Balance ==
  /\ s.Conference.RemainingTickets + SumTickets(s.Bookings)
       = s.Conference.TotalTickets
  /\ conf.RemainingTickets + SumTickets(bookings) = conf.TotalTickets

\* C1 witness: a CLI cancel has succeeded and left another booking in the list.
C1_Witness ==
  /\ prog = "cli"
  /\ ret.op = "cancel" /\ ret.err = "nil"
  /\ Len(s.Bookings) >= 1
  /\ s.Conference.RemainingTickets < s.Conference.TotalTickets

\* C2: remaining capacity is never negative and never above the total.
C2_RemainingInRange ==
  /\ 0 <= s.Conference.RemainingTickets
  /\ s.Conference.RemainingTickets <= s.Conference.TotalTickets
  /\ 0 <= conf.RemainingTickets
  /\ conf.RemainingTickets <= conf.TotalTickets

\* C2 witness: the web program is sold out by two bookings.
C2_Witness ==
  /\ prog = "web"
  /\ conf.RemainingTickets = 0
  /\ Len(bookings) = 2

\* C3 as stated: every book call whose ticket count exceeds the remaining
\* capacity returns the capacity error and leaves the ledger unchanged.
C3_AsStated ==
  [][/\ AtMenu =>
          \A a \in BookArgs :
            a.tk > s.Conference.RemainingTickets /\ BookWith(a)
              => ret'.err = "capacity" /\ s' = s
     /\ AtBookBody =>
          \A a \in WebBookArgs :
            Atoi(a.line) > conf.RemainingTickets /\ WebBookWith(a)
              => ret'.err = "badrequest"
                 /\ UNCHANGED <<conf, bookings, nextID>>]_vars

\* C3 amended: in every reachable state, a book call whose ticket count
\* exceeds the remaining capacity returns an error and leaves conference,
\* list and counter unchanged; the error is the capacity error when the names
\* and the email are valid (the web handler validates neither).
C3_OverCapacityRejected ==
  /\ AtMenu =>
       \A a \in BookArgs :
         a.tk > s.Conference.RemainingTickets
           => LET r == BookResult(a)
              IN /\ r.err # "nil"
                 /\ NamesAndEmailValid(a) => r.err = "capacity"
                 /\ r.s = s
  /\ prog = "web" =>
       \A a \in WebBookArgs :
         Atoi(a.line) > conf.RemainingTickets
           => LET r == WebBookResult(a)
              IN /\ r.err = "badrequest"
                 /\ r.s = WebState(conf, bookings, nextID)

\* C3 witness: a CLI book was refused for capacity on a ledger with a booking.
C3_Witness ==
  /\ prog = "cli"
  /\ ret = Result("book", "capacity", 0)
  /\ Len(s.Bookings) = 1
  /\ s.NextID = 1

\* C4: in every reachable state, a CLI book call with a name of fewer than
\* 2 characters after trimming, an email without the local@domain.tld shape
\* or a ticket count <= 0 returns an error and leaves conference, list and
\* counter unchanged.
C4_InvalidRejected ==
  AtMenu =>
    \A a \in BookArgs :
      (~NamesAndEmailValid(a) \/ a.tk <= 0)
        => LET r == BookResult(a)
           IN /\ r.err \in {"name", "email", "tickets"}
              /\ r.s = s

\* C4 witness: a CLI book was refused for its email on a ledger with a booking.
C4_Witness ==
  /\ prog = "cli"
  /\ ret = Result("book", "email", 0)
  /\ Len(s.Bookings) = 1

\* C5: every successful book returns an identifier greater than every
\* identifier a successful book of this run returned before, and identifier 1
\* on a fresh ledger.
C5_IdentifiersIncrease ==
  [][/\ (AtMenu /\ ret'.err = "nil" /\ \E a \in BookArgs : BookWith(a))
          => /\ ret'.id > issued
             /\ s.NextID = 0 => ret'.id = 1
     /\ (AtBookBody /\ ret'.err = "nil" /\ \E a \in WebBookArgs : WebBookWith(a))
          => /\ ret'.id > issued
             /\ issued = 0 => ret'.id = 1]_vars

\* C5 witness: the third identifier was returned after the two bookings
\* before it had been cancelled.
C5_Witness ==
  /\ prog = "cli"
  /\ ret = Result("book", "nil", 3)
  /\ issued = 3
  /\ Len(s.Bookings) = 1

\* C6: a CLI cancel with an identifier no booking of the list has returns the
\* not-found error and leaves conference, list and counter unchanged.
C6_UnknownIdRejected ==
  [][AtMenu =>
       \A id \in 0..(limits.id + 1) :
         (\A i \in 1..Len(s.Bookings) : s.Bookings[i].ID # id) /\ Cancel(id)
           => ret'.err = "notfound" /\ s' = s]_vars

\* C6 witness: an identifier that had been issued and cancelled was
\* cancelled again.
C6_Witness ==
  /\ prog = "cli"
  /\ ret.op = "cancel" /\ ret.err = "notfound"
  /\ ret.id \in 1..s.NextID
  /\ s.Conference.RemainingTickets = s.Conference.TotalTickets

\* C7: a successful cancel removes the booking with the identifier and no
\* other, adds that booking's tickets to the remaining capacity, keeps the
\* other bookings as they were and in their order, and keeps the counter.
C7_CancelRemovesOne ==
  [][/\ AtMenu =>
          \A id \in 0..(limits.id + 1) :
            Cancel(id) /\ ret'.err = "nil"
              => \E i \in 1..Len(s.Bookings) :
                   /\ s.Bookings[i].ID = id
                   /\ s'.Bookings = Without(s.Bookings, i)
                   /\ s'.Conference =
                        [s.Conference EXCEPT
                           !.RemainingTickets = @ + s.Bookings[i].Tickets]
                   /\ s'.NextID = s.NextID
     /\ AtCancelBody =>
          \A g \in Handlers, id \in 0..(limits.id + 1) :
            (\E i \in 1..Len(bookings) : bookings[i].ID = id) /\ CancelBody(g, id)
              => \E i \in 1..Len(bookings) :
                   /\ bookings[i].ID = id
                   /\ bookings' = Without(bookings, i)
                   /\ conf' = [conf EXCEPT
                                 !.RemainingTickets = @ + bookings[i].Tickets]
                   /\ nextID' = nextID]_vars

\* C7 witness: of three bookings the middle one was cancelled.
C7_Witness ==
  /\ prog = "cli"
  /\ ret = Result("cancel", "nil", 2)
  /\ Len(s.Bookings) = 2
  /\ s.Bookings[1].ID = 1 /\ s.Bookings[2].ID = 3

\* C8: whatever happens during saveState, the process being killed included,
\* every step leaves bookings.json as it was or replaces it by the whole
\* document of the ledger being saved; it is never empty or a prefix.
C8_SnapshotOldOrNew ==
  [][\/ file' = file
     \/ /\ InSave
        /\ file' = Whole(Encode(s))
        /\ loadState(file', FALSE).err = "nil"]_vars

\* C8 witness: the process was killed while writing the temp file and
\* bookings.json still holds the snapshot committed before.
C8_Witness ==
  /\ pc = "start"
  /\ tmp = Partial
  /\ file.kind = "json"
  /\ file.doc.next_id = 0

\* C9 as stated: a fresh ledger is initialised, and its save started, only
\* when bookings.json is absent.
C9_AsStated == (pc = "init" \/ site = "init") => file.kind = "absent"

\* C10 as stated: once saveState has written the ledger, loadState returns a
\* ledger identical to it.
C10_AsStated ==
  (prog = "cli" /\ pc = "menu" /\ file = Whole(Encode(s)))
    => loadState(file, FALSE) = [s |-> s, err |-> "nil"]

\* The handlers inside the region between mu.Lock() and the deferred
\* mu.Unlock().
InRegion(g) == hpc[g] \in {"body", "unlock"}

\* C11: under any interleaving of the handlers, a handler inside the region
\* that reads or writes conf, bookings and nextID holds the mutex (so at most
\* one handler is inside at a time), every body of index, book and cancel is
\* run by the holder of the mutex, and the three globals change in no other
\* step.
C11_MutualExclusion ==
  [][/\ \A g \in Handlers : InRegion(g)' => mu' = g
     /\ \A g \in Handlers :
          (hpc[g] = "body" /\ hpc'[g] # "body") => mu = g /\ mu' = g
     /\ <<conf, bookings, nextID>>' # <<conf, bookings, nextID>>
          => mu \in Handlers /\ hpc[mu] = "body" /\ hpc'[mu] = "unlock"]_vars

\* C11 witness: one handler is in the body of book with a booking already in
\* the list, the other waits for the mutex.
C11_Witness ==
  /\ prog = "web"
  /\ mu = 1 /\ hpc[1] = "body" /\ hkind[1] = "book"
  /\ hpc[2] = "lock"
  /\ Len(bookings) = 1

\* A step in which a confirmation goroutine prints.
Fires == prog = "cli" /\ tasks' # tasks /\ tasks' \subseteq tasks /\ pc' = pc

\* A step in which bookTickets returns a booking.
Books == AtMenu /\ pc' = "save_create" /\ ret'.op = "book" /\ ret'.err = "nil"

\* C12: a successful book returns with its confirmation goroutine started and
\* nothing printed yet; the goroutine holds the booking that book committed
\* (the one appended to the list and returned) and the conference name; no
\* other step starts a goroutine or alters one; and when a goroutine prints,
\* it prints the email, tickets, conference name and identifier it holds and
\* leaves the ledger and the files as they are, whatever was booked or
\* cancelled in between.
C12_ConfirmationDetached ==
  [][/\ Books =>
          /\ tasks' \ tasks =
               {Task(s'.Bookings[Len(s'.Bookings)], s'.Conference.Name)}
          /\ \A t \in tasks' \ tasks : t.b.ID = ret'.id
          /\ tasks \subseteq tasks'
          /\ printed' = printed
     /\ ~Books => tasks' \subseteq tasks
     /\ Fires =>
          /\ \E t \in tasks :
               /\ tasks' = tasks \ {t}
               /\ printed' = Line(t.b.Email, t.b.Tickets, t.confName, t.b.ID)
          /\ UNCHANGED <<s, file, tmp, ret>>]_vars

\* C12 witness: the confirmation of booking 1 has been printed, booking 1 has
\* been cancelled, and the goroutine of booking 2 has not printed yet.
C12_Witness ==
  /\ prog = "cli"
  /\ printed.id = 1 /\ printed.tickets = 1
  /\ findBookingByID(s, 1) = 0
  /\ \E t \in tasks : t.b.ID = 2
  /\ Len(s.Bookings) = 1

\* What the specification asks of a booking.
ValidBooking(b) ==
  /\ ~NameTooShort(b.FirstName)
  /\ ~NameTooShort(b.LastName)
  /\ emailRegex(b.Email)
  /\ b.Tickets > 0

\* C13 as stated: every booking held by the CLI ledger and by the web
\* program's list has names of at least 2 characters after trimming, an email
\* of the local@domain.tld shape and a ticket count > 0.
C13_AsStated ==
  /\ \A i \in 1..Len(s.Bookings) : ValidBooking(s.Bookings[i])
  /\ \A i \in 1..Len(bookings) : ValidBooking(bookings[i])

\* unicode.ToUpper on one rune, and the upper-case and lower-case variants of
\* a string.
UpperRune(c) ==
  IF c = LongS THEN "S"
  ELSE IF IsLower(c) THEN (CHOOSE p \in CasePairs : p[2] = c)[1] ELSE c
ToUpper(str) == [i \in 1..Len(str) |-> UpperRune(str[i])]
CaseVariants(str) == {str, ToUpper(str), ToLower(str)}

\* Two strings match ignoring case (Unicode simple case folding, under which
\* "S", "s" and the long s are one letter).
Fold(c) == IF c = LongS THEN "s" ELSE LowerRune(c)
EqualFold(a, b) ==
  Len(a) = Len(b) /\ \A i \in 1..Len(a) : Fold(a[i]) = Fold(b[i])

\* A string whose letters all have one-to-one case mappings (ASCII letters).
Simple(str) == \A i \in 1..Len(str) : str[i] # LongS

\* The email lines a booking with this stored email can have been made with.
CreatedWith(b) == { e \in EmailLines : ToLower(prompt(e)) = b.Email }

\* list holds the booking b.
Contains(list, b) == \E i \in 1..Len(list) : list[i] = b

\* C14 as stated: a booking created with email e is in the result of
\* findByEmail for e and for every upper/lower-case variant of e, and the
\* result of any query is exactly the bookings whose email matches the query
\* ignoring case, in insertion order (empty when none match).
C14_AsStated ==
  AtMenu =>
    /\ \A i \in 1..Len(s.Bookings) :
         \A e \in CreatedWith(s.Bookings[i]) :
           \A q \in CaseVariants(prompt(e)) :
             Contains(findBookingByEmail(s, q), s.Bookings[i])
    /\ \A q \in FindLines :
         findBookingByEmail(s, prompt(q))
           = SelectSeq(s.Bookings, LAMBDA b : EqualFold(b.Email, prompt(q)))

\* C14 amended: a booking created with email e is in the result of
\* findByEmail for e itself, and for every upper/lower-case variant of e when
\* the letters of e have one-to-one case mappings; the result of a query
\* made of such letters is exactly the bookings, in insertion order, whose
\* email is made of such letters and matches the query ignoring case, and
\* the result of any query is made of bookings of the list in the order of
\* the list.
C14_FindByEmail ==
  AtMenu =>
    /\ \A i \in 1..Len(s.Bookings) :
         \A e \in CreatedWith(s.Bookings[i]) :
           /\ Contains(findBookingByEmail(s, prompt(e)), s.Bookings[i])
           /\ Simple(e) =>
                \A q \in CaseVariants(prompt(e)) :
                  Contains(findBookingByEmail(s, q), s.Bookings[i])
    /\ \A q \in FindLines :
         LET res == findBookingByEmail(s, prompt(q))
         IN /\ Simple(q) =>
                 res = SelectSeq(s.Bookings,
                                 LAMBDA b : Simple(b.Email)
                                            /\ EqualFold(b.Email, prompt(q)))
            /\ \A k \in 1..Len(res) : Contains(s.Bookings, res[k])
            /\ \A k, l \in 1..Len(res) :
                 k < l => findBookingByID(s, res[k].ID) < findBookingByID(s, res[l].ID)

\* C14 witness: of three bookings the first and the third were made with
\* "A@b.c", and the query " a@B.C " finds the two, in that order.
C14_Witness ==
  /\ AtMenu
  /\ Len(s.Bookings) = 3
  /\ LET res == findBookingByEmail(s, prompt(<<" ", "a", "@", "B", ".", "C", " ">>))
     IN /\ Len(res) = 2
        /\ res[1].ID = 1 /\ res[2].ID = 3

\* C15 as stated: every successful book or cancel of the CLI loop is followed
\* by a save before the next command is accepted; at every menu prompt of a
\* run whose saves all succeeded bookings.json holds a snapshot whose
\* conference, bookings and next-id equal those of the ledger in memory; and
\* a command that is rejected or only reads leaves bookings.json as it is.
C15_AsStated ==
  [][/\ (AtMenu /\ s' # s /\ pc' # "start") => pc' = "save_create"
     /\ (prog = "cli" /\ pc' = "menu")
          => file'.kind = "json" /\ Decode(file'.doc) = s'
     /\ (AtMenu /\ pc' = "menu") => file' = file]_vars

\* C16: under fair scheduling every handler that requests the mutex acquires
\* it, and every handler that holds it releases it and completes, on every
\* path through index, book (the invalid-ticket-count return included) and
\* cancel (the unknown-id case included).
C16_LockReleased ==
  \A g \in Handlers :
    /\ (hpc[g] = "lock") ~> (mu = g)
    /\ (mu = g) ~> (hpc[g] = "idle" /\ mu # g)

\* C16 witness: a book request was answered "Invalid ticket count", its
\* handler has returned, and the other handler, which was waiting, holds the
\* mutex in the body of cancel.
C16_Witness ==
  /\ prog = "web"
  /\ ret = Result("book", "badrequest", 0)
  /\ hpc[1] = "idle"
  /\ mu = 2 /\ hpc[2] = "body" /\ hkind[2] = "cancel"

\* C17 as stated: whenever saveState fails (the temp file cannot be created,
\* encoding fails, close fails, rename fails) its call site reports the
\* failure, the ledger in memory keeps the book or cancel already applied,
\* and bookings.json holds what it held before.
C17_AsStated ==
  [][(prog = "cli" /\ InSave /\ pc' = "saved" /\ saved'.err # "nil")
       => /\ saved'.warned
          /\ s' = s
          /\ file' = file]_vars

\* C18: no two bookings of a list have the same identifier and the counter
\* is at least every identifier of the list, in the CLI ledger and in the web
\* program's globals under any interleaving of the handlers.
C18_UniqueIdentifiers ==
  /\ \A i, j \in 1..Len(s.Bookings) :
       i # j => s.Bookings[i].ID # s.Bookings[j].ID
  /\ \A i \in 1..Len(s.Bookings) : s.Bookings[i].ID <= s.NextID
  /\ \A i, j \in 1..Len(bookings) : i # j => bookings[i].ID # bookings[j].ID
  /\ \A i \in 1..Len(bookings) : bookings[i].ID <= nextID

\* C18 witness: the web list holds bookings 1 and 3 after booking 2 was
\* cancelled, while the two handlers are in flight.
C18_Witness ==
  /\ prog = "web"
  /\ Len(bookings) = 2
  /\ bookings[1].ID = 1 /\ bookings[2].ID = 3
  /\ hpc[1] = "unlock" /\ hpc[2] = "lock"

\* C19 as stated: in a run that restored the ledger from bookings.json, every
\* successful book returns an identifier greater than every identifier a
\* successful book returned in an earlier run.
C19_AsStated ==
  [][(Books /\ runs.restored) => ret'.id > runs.earlier]_vars

====
